---- MODULE Spec2Model ----
(***************************************************************************)
(* Model of the JVF XML import plugin (XML_JVF_Import/xml_jvf_import.py):  *)
(* the coordinate-text parser parse_poslist, the geometry extractor        *)
(* _extract_geometry_from_record and the layer builder import_jvf_xml.     *)
(*                                                                         *)
(* A text is a sequence of one-character strings; the value None is the    *)
(* one-element sequence NoneText.  A float is a pair <<m, e>> standing for *)
(* m * 10^e, normalised so that equal numbers are equal pairs.             *)
(***************************************************************************)
EXTENDS Integers, Sequences, FiniteSets, TLC

VARIABLES
    pc,         \* position of the operation under study
    text,       \* parse_poslist: the argument
    npieces,    \* parse_poslist: pieces appended to the seed text
    pts,        \* parse_poslist: the returned point list
    strategy,   \* parse_poslist: number of the return statement that returned
    raised,     \* parse_poslist: the exception that escaped ("none" if none)
    record_elem,\* _extract_geometry_from_record: the <ZaznamObjektu> subtree
    nadded,     \* _extract_geometry_from_record: elements added to the seed subtree
    extracted,  \* _extract_geometry_from_record: the returned (geometry, label)
    ngroups,    \* import_jvf_xml: children of <Data> entered so far
    zaznamy,    \* import_jvf_xml: the records of the current group handled so far
    features,   \* import_jvf_xml: features of the current group
    all_attributes, \* import_jvf_xml: attribute names of the current group
    geometry_type,  \* import_jvf_xml: geometry type of the current group
    layer,      \* import_jvf_xml: the layer created for the current group
    point_layers, line_layers, polygon_layers, \* import_jvf_xml: (layer, name, count)
    legend      \* the children of the project's layer tree root, top first

parseVars == <<text, npieces, pts, strategy, raised>>
extractVars == <<record_elem, nadded, extracted>>
groupVars == <<zaznamy, features, all_attributes, geometry_type, layer>>
listVars == <<point_layers, line_layers, polygon_layers>>
importVars == <<ngroups, groupVars, listVars, legend>>
vars == <<pc, parseVars, extractVars, importVars>>

----------------------------------------------------------------------------
\* Bounds

MaxPieces == 3
MaxAdded == 2
MaxRecords == 3
MaxGroups == 1
MaxLegendRecords == 1
MaxLegendGroups == 4

----------------------------------------------------------------------------
\* Characters and texts

NoneText == <<"None">>

Whitespace == {" ", "\n", "\t"}

Digits == {"0", "1", "2", "3", "4", "5", "6", "7", "8", "9"}

DigitVal(c) ==
    CASE c = "0" -> 0 [] c = "1" -> 1 [] c = "2" -> 2 [] c = "3" -> 3
      [] c = "4" -> 4 [] c = "5" -> 5 [] c = "6" -> 6 [] c = "7" -> 7
      [] c = "8" -> 8 [] c = "9" -> 9

\* str.strip()
RECURSIVE LStrip(_)
LStrip(s) == IF s # <<>> /\ Head(s) \in Whitespace THEN LStrip(Tail(s)) ELSE s

RECURSIVE RStrip(_)
RStrip(s) ==
    IF s # <<>> /\ s[Len(s)] \in Whitespace
    THEN RStrip(SubSeq(s, 1, Len(s) - 1))
    ELSE s

Strip(s) == RStrip(LStrip(s))

\* length of the longest prefix of s made of characters of set S
RECURSIVE Span(_, _)
Span(s, S) == IF s # <<>> /\ Head(s) \in S THEN 1 + Span(Tail(s), S) ELSE 0

Drop(s, n) == SubSeq(s, n + 1, Len(s))

Contains(s, c) == \E i \in 1..Len(s) : s[i] = c

\* re.search(r'\s+', t)
HasWhitespace(s) == \E i \in 1..Len(s) : s[i] \in Whitespace

\* length of the longest prefix of s with no character of set S
RECURSIVE SpanNot(_, _)
SpanNot(s, S) == IF s # <<>> /\ Head(s) \notin S THEN 1 + SpanNot(Tail(s), S) ELSE 0

\* re.split(r'\s+', t): the pieces between the maximal runs of whitespace
RECURSIVE re_split_ws(_)
re_split_ws(t) ==
    LET n == SpanNot(t, Whitespace)
    IN  IF n = Len(t)
        THEN <<t>>
        ELSE LET rest == Drop(t, n)
             IN  <<SubSeq(t, 1, n)>> \o re_split_ws(Drop(rest, Span(rest, Whitespace)))

\* t.replace('\n', ' ')
ReplaceNewlines(t) == [i \in 1..Len(t) |-> IF t[i] = "\n" THEN " " ELSE t[i]]

\* p.split(',', 1) of a p that contains a comma
SplitComma(p) ==
    LET i == CHOOSE k \in 1..Len(p) : p[k] = "," /\ \A j \in 1..(k - 1) : p[j] # ","
    IN  <<SubSeq(p, 1, i - 1), Drop(p, i)>>

----------------------------------------------------------------------------
\* Floats

RECURSIVE DigitsToInt(_)
DigitsToInt(s) ==
    IF s = <<>> THEN 0
    ELSE 10 * DigitsToInt(SubSeq(s, 1, Len(s) - 1)) + DigitVal(s[Len(s)])

RECURSIVE Normalise(_, _)
Normalise(m, e) ==
    IF m = 0 THEN <<0, 0>>
    ELSE IF m % 10 = 0 THEN Normalise(m \div 10, e + 1)
    ELSE <<m, e>>

\* float(s) for a text of digits, signs, '.', 'e'/'E' and other characters:
\* [sign] (digits ['.' [digits]] | '.' digits) [('e'|'E') [sign] digits].
\* ok is FALSE where Python raises ValueError.
NotAFloat == [ok |-> FALSE, v |-> <<0, 0>>]

\* the digits of an exponent, to the end of the text
float_exponent_digits(s, neg) ==
    IF s = <<>> \/ Span(s, Digits) # Len(s) THEN [ok |-> FALSE, e |-> 0]
    ELSE [ok |-> TRUE, e |-> IF neg THEN -DigitsToInt(s) ELSE DigitsToInt(s)]

\* what follows the mantissa: nothing, or an exponent
float_exponent(s) ==
    IF s = <<>> THEN [ok |-> TRUE, e |-> 0]
    ELSE IF Head(s) \notin {"e", "E"} THEN [ok |-> FALSE, e |-> 0]
    ELSE IF Len(s) > 1 /\ s[2] \in {"-", "+"}
         THEN float_exponent_digits(Drop(s, 2), s[2] = "-")
         ELSE float_exponent_digits(Tail(s), FALSE)

float_value(neg, mant, nfrac, ex) ==
    IF ~ex.ok THEN NotAFloat
    ELSE [ok |-> TRUE, v |-> Normalise(IF neg THEN -mant ELSE mant, ex.e - nfrac)]

\* the integer digits, the fraction digits and the rest of the text
float_mantissa(neg, int, frac, rest) ==
    IF int = <<>> /\ frac = <<>> THEN NotAFloat
    ELSE float_value(neg, DigitsToInt(int \o frac), Len(frac), float_exponent(rest))

\* the integer digits and what follows them
float_fraction(neg, int, rest) ==
    IF rest # <<>> /\ Head(rest) = "."
    THEN float_mantissa(neg, int, SubSeq(Tail(rest), 1, Span(Tail(rest), Digits)),
                        Drop(Tail(rest), Span(Tail(rest), Digits)))
    ELSE float_mantissa(neg, int, <<>>, rest)

float_unsigned(neg, s) ==
    float_fraction(neg, SubSeq(s, 1, Span(s, Digits)), Drop(s, Span(s, Digits)))

float(s) ==
    IF s # <<>> /\ Head(s) \in {"-", "+"}
    THEN float_unsigned(Head(s) = "-", Tail(s))
    ELSE float_unsigned(FALSE, s)

\* list(map(float, tokens)): the values, or ValueError at the first bad token
map_float_cons(f, r) ==
    IF ~f.ok THEN [exc |-> "ValueError", nums |-> <<>>]
    ELSE IF r.exc # "none" THEN r
    ELSE [exc |-> "none", nums |-> <<f.v>> \o r.nums]

RECURSIVE map_float(_)
map_float(toks) ==
    IF toks = <<>> THEN [exc |-> "none", nums |-> <<>>]
    ELSE map_float_cons(float(Head(toks)), map_float(Tail(toks)))

\* re.findall(r'[-+]?\d*\.\d+|[-+]?\d+', t): leftmost matches, first alternative
\* preferred, each quantifier greedy.
\* Length of the match at the start of t (0: none), given the length of its
\* sign, of its integer digits and of the digits after a '.' that follows them.
number_match_len(sgn, ni, nf) ==
    IF nf > 0 THEN sgn + ni + 1 + nf
    ELSE IF ni > 0 THEN sgn + ni
    ELSE 0

FractionDigits(s) ==
    IF s # <<>> /\ Head(s) = "." THEN Span(Tail(s), Digits) ELSE 0

number_match_unsigned(sgn, s) ==
    number_match_len(sgn, Span(s, Digits), FractionDigits(Drop(s, Span(s, Digits))))

number_match(t) ==
    IF Head(t) \in {"-", "+"} THEN number_match_unsigned(1, Tail(t))
    ELSE number_match_unsigned(0, t)

RECURSIVE re_findall_numbers(_)
re_findall_from(t, len) ==
    IF len = 0 THEN re_findall_numbers(Tail(t))
    ELSE <<SubSeq(t, 1, len)>> \o re_findall_numbers(Drop(t, len))

re_findall_numbers(t) ==
    IF t = <<>> THEN <<>> ELSE re_findall_from(t, number_match(t))

----------------------------------------------------------------------------
\* parse_poslist

QgsPointXY(x, y) == <<x, y>>

NoPoints == [exc |-> "none", pts |-> <<>>]

prepend_point(p, r) ==
    IF r.exc # "none" THEN r ELSE [exc |-> "none", pts |-> <<p>> \o r.pts]

\* for i in range(0, len(nums), dim): pts.append(QgsPointXY(nums[i], nums[i + 1]))
\* from (1-based) index i on; nums[i + 1] past the end raises IndexError
RECURSIVE group_points(_, _, _)
group_points(nums, dim, i) ==
    IF i > Len(nums) THEN NoPoints
    ELSE IF i + 1 > Len(nums) THEN [exc |-> "IndexError", pts |-> <<>>]
    ELSE prepend_point(QgsPointXY(nums[i], nums[i + 1]), group_points(nums, dim, i + dim))

\* mutant of except_pass: no try block, the exception leaves the function
no_except(r) == r

\* except Exception: pass  -- the block's exception is swallowed, nothing returned
except_pass(r) == IF r.exc # "none" THEN NoPoints ELSE r

\* mutant of stride: always pairs
stride_always_pairs(nums) == 2

\* dim = 3 if len(nums) % 3 == 0 else 2
stride(nums) == IF Len(nums) % 3 = 0 THEN 3 ELSE 2

\* the points of the parsed numbers m, or m's exception
group_numbers(m, dim) ==
    IF m.exc # "none" THEN [exc |-> m.exc, pts |-> <<>>]
    ELSE group_points(m.nums, dim, 1)

numbers_by_stride(m) == group_numbers(m, stride(m.nums))

\* the body of the first try block: 2D or 3D by the number of tokens
strategy1(t) == numbers_by_stride(map_float(re_split_ws(t)))

\* the body of the second try block: always pairs
strategy2(t) == group_numbers(map_float(re_split_ws(t)), 2)

strategy2_guard(t) == Contains(t, "\n") \/ HasWhitespace(t)

comma_point(x, y) ==
    IF x.ok /\ y.ok
    THEN [exc |-> "none", pts |-> <<QgsPointXY(x.v, y.v)>>]
    ELSE [exc |-> "ValueError", pts |-> <<>>]

comma_sides(xy) == comma_point(float(xy[1]), float(xy[2]))

\* mutant of comma_token: a malformed token aborts the third block
comma_token_unguarded(p) ==
    IF ~Contains(p, ",") THEN NoPoints ELSE comma_sides(SplitComma(p))

\* one token of the third block: x_str, y_str = p.split(',', 1); float both;
\* except Exception: continue
comma_token(p) ==
    IF ~Contains(p, ",") THEN NoPoints ELSE except_pass(comma_sides(SplitComma(p)))

concat_points(h, r) ==
    IF h.exc # "none" THEN h
    ELSE IF r.exc # "none" THEN r
    ELSE [exc |-> "none", pts |-> h.pts \o r.pts]

RECURSIVE comma_tokens(_)
comma_tokens(parts) ==
    IF parts = <<>> THEN NoPoints
    ELSE concat_points(comma_token(Head(parts)), comma_tokens(Tail(parts)))

strategy3(t) == comma_tokens(re_split_ws(Strip(ReplaceNewlines(t))))

\* for i in range(0, len(nums), 2): if i + 1 < len(nums): append
RECURSIVE pair_up(_, _)
pair_up(nums, i) ==
    IF i + 1 > Len(nums) THEN <<>>
    ELSE <<QgsPointXY(nums[i], nums[i + 1])>> \o pair_up(nums, i + 2)

pair_numbers(m) ==
    IF m.exc # "none" THEN [exc |-> m.exc, pts |-> <<>>]
    ELSE [exc |-> "none", pts |-> pair_up(m.nums, 1)]

fallback(t) == pair_numbers(map_float(re_findall_numbers(t)))

\* The call: pts is the returned list, ret the return statement taken
\* (0: line 77, 1: line 88, 2: line 100, 3: line 116, 4: line 125, 5: line 127),
\* exc an exception that left the function ("none": it returned).
Returned(p, r) == [pts |-> p, ret |-> r, exc |-> "none"]
Raised(e) == [pts |-> <<>>, ret |-> -1, exc |-> e]

\* lines 118-127, s4 being the outcome of the body of the last try block
after_fallback(s4) ==
    IF s4.exc # "none" THEN Returned(<<>>, 5) ELSE Returned(s4.pts, 4)

\* lines 104-127, s3 being the outcome of the third block
after_strategy3(t, s3) ==
    IF s3.exc # "none" THEN Raised(s3.exc)
    ELSE IF s3.pts # <<>> THEN Returned(s3.pts, 3)
    ELSE after_fallback(fallback(t))

\* lines 92-127, s2 being the outcome of the second block
after_strategy2(t, s2) ==
    IF s2.exc # "none" THEN Raised(s2.exc)
    ELSE IF s2.pts # <<>> THEN Returned(s2.pts, 2)
    ELSE after_strategy3(t, IF Contains(t, ",") THEN strategy3(t) ELSE NoPoints)

\* lines 80-127, s1 being the outcome of the first block
after_strategy1(t, s1) ==
    IF s1.exc # "none" THEN Raised(s1.exc)
    ELSE IF s1.pts # <<>> THEN Returned(s1.pts, 1)
    ELSE after_strategy2(t, IF strategy2_guard(t) THEN except_pass(strategy2(t))
                            ELSE NoPoints)

parse_stripped(t) == after_strategy1(t, except_pass(strategy1(t)))

parse_poslist(txt) ==
    IF txt = NoneText \/ txt = <<>> THEN Returned(<<>>, 0)
    ELSE parse_stripped(Strip(txt))

----------------------------------------------------------------------------
\* XML elements.  A subtree is the pre-order list of its elements, each with its
\* depth below the subtree's root (the root, element 1, has depth 0); a tag is
\* the list of the parts of the qualified name between '}' characters:
\* <<"Point">> for "Point", <<"{gml", "Point">> for "{gml}Point".

Elem(tag, depth, txt) == [tag |-> tag, depth |-> depth, text |-> txt]

\* tag.split('}')[-1] if '}' in tag else tag
_localname(tag) == IF Len(tag) > 1 THEN tag[Len(tag)] ELSE tag[1]

\* index of the last element of the subtree of element i
RECURSIVE SubtreeEnd(_, _, _)
SubtreeEnd(tree, i, j) ==
    IF j < Len(tree) /\ tree[j + 1].depth > tree[i].depth
    THEN SubtreeEnd(tree, i, j + 1)
    ELSE j

\* elem.iter(): the element and its descendants in document order
iter(tree, i) == [k \in 1..(SubtreeEnd(tree, i, i) - i + 1) |-> i + k - 1]

_iter_desc(tree, i, wanted_local) ==
    SelectSeq(iter(tree, i), LAMBDA k : _localname(tree[k].tag) = wanted_local)

\* x.text and x.text.strip()
NonBlank(txt) == txt # NoneText /\ txt # <<>> /\ Strip(txt) # <<>>

\* for x in elems: if x.text and x.text.strip(): pos_text = x.text; break
FirstText(tree, elems) ==
    LET hits == SelectSeq(elems, LAMBDA k : NonBlank(tree[k].text))
    IN  IF hits = <<>> THEN NoneText ELSE tree[hits[1]].text

\* " ".join(all_pos)
RECURSIVE join_space(_)
join_space(texts) ==
    IF texts = <<>> THEN <<>>
    ELSE IF Len(texts) = 1 THEN texts[1]
    ELSE texts[1] \o <<" ">> \o join_space(Tail(texts))

\* all_pos = [p.text.strip() for p in _iter_desc(x, 'pos') if p.text and p.text.strip()]
\* pos_text = " ".join(all_pos) if all_pos
JoinedPos(tree, i) ==
    LET hits == SelectSeq(_iter_desc(tree, i, "pos"), LAMBDA k : NonBlank(tree[k].text))
    IN  IF hits = <<>> THEN NoneText
        ELSE join_space([k \in 1..Len(hits) |-> Strip(tree[hits[k]].text)])

\* the coordinate text of a Point: pos, else posList, else any element's text
point_pos_text(tree, pt) ==
    LET a == FirstText(tree, _iter_desc(tree, pt, "pos"))
        b == FirstText(tree, _iter_desc(tree, pt, "posList"))
        c == FirstText(tree, iter(tree, pt))
    IN  IF a # NoneText THEN a ELSE IF b # NoneText THEN b ELSE c

\* the coordinate text of a LineString or LinearRing: posList, else the joined
\* pos texts, else coordinates
line_pos_text(tree, ls) ==
    LET a == FirstText(tree, _iter_desc(tree, ls, "posList"))
        b == JoinedPos(tree, ls)
        c == FirstText(tree, _iter_desc(tree, ls, "coordinates"))
    IN  IF a # NoneText THEN a ELSE IF b # NoneText THEN b ELSE c

\* pts = self.parse_poslist(pos_text) if pos_text else []
parse_if_text(pos_text) ==
    IF pos_text = NoneText \/ pos_text = <<>> THEN <<>> ELSE parse_poslist(pos_text).pts

NoGeometry == [geom |-> [kind |-> "none", data |-> <<>>], label |-> "None"]

fromPointXY(p) == [kind |-> "point", data |-> <<p>>]
fromPolylineXY(ps) == [kind |-> "line", data |-> ps]
fromPolygonXY(rings) == [kind |-> "polygon", data |-> rings]

\* for pt in _iter_desc(record_elem, 'Point'): ... return at the first with points
RECURSIVE extract_point(_, _)
extract_point(tree, elems) ==
    IF elems = <<>> THEN NoGeometry
    ELSE LET ps == parse_if_text(point_pos_text(tree, Head(elems)))
         IN  IF ps # <<>> THEN [geom |-> fromPointXY(ps[1]), label |-> "Point"]
             ELSE extract_point(tree, Tail(elems))

RECURSIVE extract_line(_, _)
extract_line(tree, elems) ==
    IF elems = <<>> THEN NoGeometry
    ELSE LET ps == parse_if_text(line_pos_text(tree, Head(elems)))
         IN  IF ps # <<>> THEN [geom |-> fromPolylineXY(ps), label |-> "LineString"]
             ELSE extract_line(tree, Tail(elems))

\* mutant of collect_rings: a ring without points is appended too
RECURSIVE collect_rings_keep_empty(_, _)
collect_rings_keep_empty(tree, elems) ==
    IF elems = <<>> THEN <<>>
    ELSE <<parse_if_text(line_pos_text(tree, Head(elems)))>>
             \o collect_rings_keep_empty(tree, Tail(elems))

\* for ring in _iter_desc(poly, 'LinearRing'): ... if pts: rings.append(pts)
RECURSIVE collect_rings(_, _)
collect_rings(tree, elems) ==
    IF elems = <<>> THEN <<>>
    ELSE LET ps == parse_if_text(line_pos_text(tree, Head(elems)))
         IN  (IF ps # <<>> THEN <<ps>> ELSE <<>>) \o collect_rings(tree, Tail(elems))

RECURSIVE extract_polygon(_, _)
extract_polygon(tree, elems) ==
    IF elems = <<>> THEN NoGeometry
    ELSE LET rings == collect_rings(tree, _iter_desc(tree, Head(elems), "LinearRing"))
         IN  IF rings # <<>> THEN [geom |-> fromPolygonXY(rings), label |-> "Polygon"]
             ELSE extract_polygon(tree, Tail(elems))

\* mutant of _extract_geometry_from_record: LineString tried before Point
extract_line_first(tree) ==
    LET p == extract_point(tree, _iter_desc(tree, 1, "Point"))
        l == extract_line(tree, _iter_desc(tree, 1, "LineString"))
        g == extract_polygon(tree, _iter_desc(tree, 1, "Polygon"))
    IN  IF l.label # "None" THEN l
        ELSE IF p.label # "None" THEN p
        ELSE g

_extract_geometry_from_record(tree) ==
    LET p == extract_point(tree, _iter_desc(tree, 1, "Point"))
        l == extract_line(tree, _iter_desc(tree, 1, "LineString"))
        g == extract_polygon(tree, _iter_desc(tree, 1, "Polygon"))
    IN  IF p.label # "None" THEN p
        ELSE IF l.label # "None" THEN l
        ELSE g

----------------------------------------------------------------------------
\* The parser under every text built from a seed text and a few pieces

SeedTexts ==
    { NoneText,
      <<>>,
      <<" ", " ", " ">>,
      <<"1", " ", "2", " ", "3", " ", "4">>,
      <<"0", " ", "0", " ", "1", " ", "1", " ", "2">>,
      <<"1", ".", "0", ",", "2", ".", "0", " ", "3", ".", "5", ",", "4", ".", "2", "5">>,
      <<"a", "b", "c", " ", "1", ".", "0", ",", "2", ".", "0", " ",
        "x", "y", "z", " ", "3", ".", "0", ",", "4", ".", "0">> }

Pieces ==
    { <<" ", "7">>,
      <<" ", "1", "e", "2">>,
      <<"\n", "-", "2", ".", "5">>,
      <<" ">>,
      <<",">>,
      <<"3">>,
      <<"a">>,
      <<".", "5">> }

ParseIdle ==
    /\ text = NoneText
    /\ npieces = 0
    /\ pts = <<>>
    /\ strategy = -1
    /\ raised = "none"

ExtractIdle ==
    /\ record_elem = <<>>
    /\ nadded = 0
    /\ extracted = NoGeometry

NoLayer == [id |-> 0, geometry_type |-> "None", fields |-> <<>>, features |-> <<>>]

ImportIdle ==
    /\ ngroups = 0
    /\ zaznamy = <<>>
    /\ features = <<>>
    /\ all_attributes = <<>>
    /\ geometry_type = "None"
    /\ layer = NoLayer
    /\ point_layers = <<>>
    /\ line_layers = <<>>
    /\ polygon_layers = <<>>
    /\ legend = <<>>

InitParse ==
    /\ pc = "input"
    /\ ExtractIdle
    /\ ImportIdle
    /\ text \in SeedTexts
    /\ npieces = 0
    /\ pts = <<>>
    /\ strategy = -1
    /\ raised = "none"

\* the caller prepares a longer text
AppendPiece(p) ==
    /\ pc = "input"
    /\ text # NoneText
    /\ npieces < MaxPieces
    /\ text' = text \o p
    /\ npieces' = npieces + 1
    /\ UNCHANGED <<pc, pts, strategy, raised, extractVars, importVars>>

\* parse_poslist(text)
CallParse ==
    /\ pc = "input"
    /\ LET r == parse_poslist(text)
       IN  /\ pts' = r.pts
           /\ strategy' = r.ret
           /\ raised' = r.exc
    /\ pc' = "done"
    /\ UNCHANGED <<text, npieces, extractVars, importVars>>

NextParse ==
    \/ \E p \in Pieces : AppendPiece(p)
    \/ CallParse

SpecParse == InitParse /\ [][NextParse]_vars

----------------------------------------------------------------------------
\* The extractor under every record built from a seed record and a few elements

Plain(name) == <<name>>
Gml(name) == <<"{http://www.opengis.net/gml/3.2", name>>

Root == Elem(Plain("ZaznamObjektu"), 0, NoneText)

Txt_1_2 == <<"1", " ", "2">>
Txt_10_20 == <<"1", "0", " ", "2", "0">>
Txt_3_4_5_6 == <<"3", " ", "4", " ", "5", " ", "6">>
Txt_0_0_1_1_2_2 == <<"0", " ", "0", " ", "1", " ", "1", " ", "2", " ", "2">>
Txt_5c6_7c8 == <<"5", ",", "6", " ", "7", ",", "8">>
Txt_x == <<"x">>
Txt_blank == <<" ">>

SeedRecords ==
    { <<Root>>,
      <<Root, Elem(Gml("LineString"), 1, NoneText),
              Elem(Gml("posList"), 2, Txt_0_0_1_1_2_2)>>,
      <<Root, Elem(Plain("Polygon"), 1, NoneText),
              Elem(Plain("LinearRing"), 2, NoneText),
              Elem(Plain("posList"), 3, Txt_3_4_5_6),
              Elem(Plain("LinearRing"), 2, NoneText),
              Elem(Plain("posList"), 3, NoneText)>>,
      <<Root, Elem(Plain("Point"), 1, NoneText), Elem(Plain("pos"), 2, Txt_x),
              Elem(Plain("LineString"), 1, NoneText),
              Elem(Plain("posList"), 2, Txt_3_4_5_6)>>,
      <<Root, Elem(Gml("Point"), 1, NoneText), Elem(Gml("pos"), 2, Txt_10_20)>>,
      <<Root, Elem(Plain("GeometrieObjektu"), 1, NoneText),
              Elem(Plain("LineString"), 2, NoneText),
              Elem(Plain("pos"), 3, Txt_1_2)>>,
      <<Root, Elem(Plain("LineString"), 1, NoneText),
              Elem(Plain("coordinates"), 2, Txt_5c6_7c8)>> }

ContainerTags == {Plain("Point"), Plain("LineString"), Plain("Polygon"), Plain("LinearRing")}
LeafTags == {Plain("pos"), Plain("posList")}
LeafTexts == {Txt_blank, Txt_x, Txt_1_2}

\* a coordinate element is added inside or beside the last element
LeafDepths(tree) ==
    {d \in {tree[Len(tree)].depth, tree[Len(tree)].depth + 1} : d >= 1}

InitExtract ==
    /\ pc = "input"
    /\ ParseIdle
    /\ ImportIdle
    /\ record_elem \in SeedRecords
    /\ nadded = 0
    /\ extracted = NoGeometry

\* the document holds one more element, at depth d, after the last one
AddElem(tag, txt, d) ==
    /\ pc = "input"
    /\ nadded < MaxAdded
    /\ d <= record_elem[Len(record_elem)].depth + 1
    /\ record_elem' = Append(record_elem, Elem(tag, d, txt))
    /\ nadded' = nadded + 1
    /\ UNCHANGED <<pc, extracted, parseVars, importVars>>

\* self._extract_geometry_from_record(record)
CallExtract ==
    /\ pc = "input"
    /\ extracted' = _extract_geometry_from_record(record_elem)
    /\ pc' = "done"
    /\ UNCHANGED <<record_elem, nadded, parseVars, importVars>>

NextExtract ==
    \/ \E tag \in ContainerTags, d \in 1..Len(record_elem) : AddElem(tag, NoneText, d)
    \/ \E tag \in LeafTags, txt \in LeafTexts, d \in LeafDepths(record_elem) :
          AddElem(tag, txt, d)
    \/ CallExtract

SpecExtract == InitExtract /\ [][NextExtract]_vars

----------------------------------------------------------------------------
\* import_jvf_xml: the records of each child of <Data> become one layer, and the
\* layers are inserted into the layer tree.  The document is read one record
\* at a time; apply_style changes no state the import reads and is left out.

\* the non-blank elements of the AtributyObjektu blocks, block after block
RECURSIVE attr_elems(_, _)
attr_elems(tree, blocks) ==
    IF blocks = <<>> THEN <<>>
    ELSE SelectSeq(iter(tree, Head(blocks)), LAMBDA k : NonBlank(tree[k].text))
             \o attr_elems(tree, Tail(blocks))

\* attrs[tag_attr] = elem.text.strip()
dict_set(d, key, val) ==
    [n \in DOMAIN d \cup {key} |-> IF n = key THEN val ELSE d[n]]

\* attrs.get(a, '')
dict_get(d, key) == IF key \in DOMAIN d THEN d[key] ELSE <<>>

EmptyDict == [n \in {} |-> <<>>]

InSeq(q, x) == \E i \in 1..Len(q) : q[i] = x

\* mutant of add_attribute: a new name is put in front
prepend_attribute(names, tag_attr) ==
    IF InSeq(names, tag_attr) THEN names ELSE <<tag_attr>> \o names

\* if tag_attr not in all_attributes: all_attributes.append(tag_attr)
add_attribute(names, tag_attr) ==
    IF InSeq(names, tag_attr) THEN names ELSE Append(names, tag_attr)

\* lines 338-346: the record's attrs and the grown all_attributes
RECURSIVE collect_attrs(_, _, _, _)
collect_attrs(tree, elems, attrs, names) ==
    IF elems = <<>> THEN [attrs |-> attrs, all_attributes |-> names]
    ELSE LET tag_attr == _localname(tree[Head(elems)].tag)
         IN  collect_attrs(tree, Tail(elems),
                           dict_set(attrs, tag_attr, Strip(tree[Head(elems)].text)),
                           add_attribute(names, tag_attr))

record_attrs(tree, names) ==
    collect_attrs(tree, attr_elems(tree, _iter_desc(tree, 1, "AtributyObjektu")),
                  EmptyDict, names)

\* mutant of set_geometry_type: only the first geometry sets the type
keep_first_geometry_type(old, gtype) == IF old = "None" THEN gtype ELSE old

\* geometry_type = gtype (line 355)
set_geometry_type(old, gtype) == gtype

\* _localname(obj_type_elem.tag) of the i-th child of <Data>
obj_type_name(i) == IF i % 2 = 1 THEN "BudovaTI" ELSE "PovrchovyZnakTI"

\* root.insertLayer(0, layer), for each (layer, name, count) of lst in turn
RECURSIVE insert_each(_, _)
insert_each(children, lst) ==
    IF lst = <<>> THEN children
    ELSE insert_each(<<Head(lst)[1]>> \o children, Tail(lst))

\* mutant of insert_layers: points first, then lines, then polygons
insert_layers_points_first(children, pointL, lineL, polygonL) ==
    insert_each(insert_each(insert_each(children, pointL), lineL), polygonL)

\* lines 390-402: polygons first, then lines, then points, each at index 0
insert_layers(children, pointL, lineL, polygonL) ==
    insert_each(insert_each(insert_each(children, polygonL), lineL), pointL)

Rec_PointA ==
    <<Root, Elem(Plain("AtributyObjektu"), 1, NoneText),
            Elem(Plain("A"), 2, <<"1">>),
            Elem(Plain("GeometrieObjektu"), 1, NoneText),
            Elem(Gml("Point"), 2, NoneText),
            Elem(Gml("pos"), 3, Txt_10_20)>>

Rec_LineBA ==
    <<Root, Elem(Plain("AtributyObjektu"), 1, NoneText),
            Elem(Plain("B"), 2, <<" ", "2">>),
            Elem(Plain("A"), 2, <<"3">>),
            Elem(Plain("LineString"), 1, NoneText),
            Elem(Plain("posList"), 2, Txt_3_4_5_6)>>

Rec_Polygon ==
    <<Root, Elem(Plain("Polygon"), 1, NoneText),
            Elem(Plain("LinearRing"), 2, NoneText),
            Elem(Plain("posList"), 3, Txt_3_4_5_6),
            Elem(Plain("AtributyObjektu"), 1, NoneText),
            Elem(Plain("B"), 2, <<"4">>)>>

Rec_NoGeomC ==
    <<Root, Elem(Plain("AtributyObjektu"), 1, NoneText),
            Elem(Plain("C"), 2, <<"5">>),
            Elem(Plain("A"), 2, Txt_blank),
            Elem(Plain("Point"), 1, NoneText),
            Elem(Plain("pos"), 2, Txt_x)>>

SampleRecords == {Rec_PointA, Rec_LineBA, Rec_Polygon, Rec_NoGeomC}

\* layers already in the project (identified by numbers below 1; the layer of
\* the i-th child of <Data> is identified by i)
ExistingLayers == <<-1, -2>>

InitImport ==
    /\ pc = "start"
    /\ ParseIdle
    /\ ExtractIdle
    /\ ngroups = 0
    /\ zaznamy = <<>>
    /\ features = <<>>
    /\ all_attributes = <<>>
    /\ geometry_type = "None"
    /\ layer = NoLayer
    /\ point_layers = <<>>
    /\ line_layers = <<>>
    /\ polygon_layers = <<>>
    /\ legend = ExistingLayers

\* lines 325-334: the next child of <Data>
BeginGroup(maxGroups) ==
    /\ pc \in {"start", "grouped"}
    /\ ngroups < maxGroups
    /\ ngroups' = ngroups + 1
    /\ zaznamy' = <<>>
    /\ features' = <<>>
    /\ all_attributes' = <<>>
    /\ geometry_type' = "None"
    /\ layer' = NoLayer
    /\ pc' = "group"
    /\ UNCHANGED <<parseVars, extractVars, listVars, legend>>

\* lines 336-357: one record of the group
ProcessRecord(record, maxRecords) ==
    /\ pc = "group"
    /\ Len(zaznamy) < maxRecords
    /\ zaznamy' = Append(zaznamy, record)
    /\ LET a == record_attrs(record, all_attributes)
           g == _extract_geometry_from_record(record)
       IN  /\ all_attributes' = a.all_attributes
           /\ IF g.label = "None"
              THEN UNCHANGED <<geometry_type, features>>
              ELSE /\ geometry_type' = set_geometry_type(geometry_type, g.label)
                   /\ features' = Append(features,
                         [geom |-> g.geom,
                          attributes |-> [i \in 1..Len(a.all_attributes) |->
                                             dict_get(a.attrs, a.all_attributes[i])]])
    /\ UNCHANGED <<pc, ngroups, layer, listVars, legend, parseVars, extractVars>>

\* lines 329-330 and 359-379: no record, or no geometry: no layer; else the layer
EndGroup ==
    /\ pc = "group"
    /\ pc' = "grouped"
    /\ IF zaznamy = <<>> \/ geometry_type = "None" \/ features = <<>>
       THEN UNCHANGED <<layer, listVars>>
       ELSE LET entry == <<ngroups, obj_type_name(ngroups), Len(features)>>
            IN  /\ layer' = [id |-> ngroups, geometry_type |-> geometry_type,
                             fields |-> all_attributes, features |-> features]
                /\ point_layers' = IF geometry_type = "Point"
                                   THEN Append(point_layers, entry) ELSE point_layers
                /\ line_layers' = IF geometry_type = "LineString"
                                  THEN Append(line_layers, entry) ELSE line_layers
                /\ polygon_layers' = IF geometry_type = "Polygon"
                                     THEN Append(polygon_layers, entry) ELSE polygon_layers
    /\ UNCHANGED <<ngroups, zaznamy, features, all_attributes, geometry_type,
                   legend, parseVars, extractVars>>

\* lines 381-402: the layers enter the layer tree
InsertLayers ==
    /\ pc \in {"start", "grouped"}
    /\ legend' = insert_layers(legend, point_layers, line_layers, polygon_layers)
    /\ pc' = "done"
    /\ UNCHANGED <<ngroups, groupVars, listVars, parseVars, extractVars>>

\* few groups of several records: what one layer holds
NextImport ==
    \/ BeginGroup(MaxGroups)
    \/ \E record \in SampleRecords : ProcessRecord(record, MaxRecords)
    \/ EndGroup
    \/ InsertLayers

SpecImport == InitImport /\ [][NextImport]_vars

\* several groups of few records: how the layers are ordered
NextLegend ==
    \/ BeginGroup(MaxLegendGroups)
    \/ \E record \in SampleRecords : ProcessRecord(record, MaxLegendRecords)
    \/ EndGroup
    \/ InsertLayers

SpecLegend == InitImport /\ [][NextLegend]_vars

----------------------------------------------------------------------------
\* Claims about import_jvf_xml (SpecImport)

SetMin(S) == CHOOSE m \in S : \A x \in S : m <= x

LabelOf(tree) == _extract_geometry_from_record(tree).label

\* positions in zaznamy[1..n] of the records whose extraction returned a geometry
RECURSIVE GeometryPositions(_)
GeometryPositions(n) ==
    IF n = 0 THEN <<>>
    ELSE GeometryPositions(n - 1)
             \o (IF LabelOf(zaznamy[n]) # "None" THEN <<n>> ELSE <<>>)

LayerCreated == pc = "grouped" /\ layer # NoLayer

\* C3 as stated: the layer's geometry type is the label of the first record of
\* the group that gave a geometry, and later records do not change it.
C3_TypeOfFirstRecord ==
    LayerCreated =>
        LET pos == GeometryPositions(Len(zaznamy))
        IN  /\ pos # <<>>
            /\ layer.geometry_type = LabelOf(zaznamy[pos[1]])
            /\ Len(layer.features) = Len(pos)

\* C3 amended: the layer's geometry type is the label of the last record of the
\* group that gave a geometry; every record that gave a geometry is a feature
\* of the layer, whatever its kind.
C3_TypeOfLastRecord ==
    LayerCreated =>
        LET pos == GeometryPositions(Len(zaznamy))
        IN  /\ pos # <<>>
            /\ layer.geometry_type = LabelOf(zaznamy[pos[Len(pos)]])
            /\ Len(layer.features) = Len(pos)
            /\ \A j \in 1..Len(pos) :
                  layer.features[j].geom.kind =
                      _extract_geometry_from_record(zaznamy[pos[j]]).geom.kind

\* a group whose first and last geometries differ in kind
C3_Witness ==
    /\ LayerCreated
    /\ LET pos == GeometryPositions(Len(zaznamy))
       IN  /\ Len(pos) >= 2
           /\ LabelOf(zaznamy[pos[1]]) # LabelOf(zaznamy[pos[Len(pos)]])
           /\ layer.geometry_type = LabelOf(zaznamy[pos[Len(pos)]])

\* the attributes of one record alone
AttrsOf(tree) == record_attrs(tree, <<>>).attrs

\* the sets of attribute names of zaznamy[1..n], record by record
RECURSIVE NameSets(_)
NameSets(n) ==
    IF n = 0 THEN <<>> ELSE Append(NameSets(n - 1), DOMAIN AttrsOf(zaznamy[n]))

NamesUpTo(sets, n) == UNION {sets[k] : k \in 1..n}

FirstRecordWith(sets, name) == SetMin({k \in 1..Len(sets) : name \in sets[k]})

\* C10: the layer's fields are the attribute names of all the group's records
\* (those without geometry too) in order of first occurrence; each feature's
\* attribute list is no longer than the field list, holds one value for every
\* name met so far, and its i-th value is its record's value for the i-th
\* field, or the empty string.
C10_AttributesAligned ==
    LayerCreated =>
        LET pos  == GeometryPositions(Len(zaznamy))
            sets == NameSets(Len(zaznamy))
            all  == NamesUpTo(sets, Len(zaznamy))
        IN  /\ {layer.fields[i] : i \in 1..Len(layer.fields)} = all
            /\ Len(layer.fields) = Cardinality(all)
            /\ \A i, k \in 1..Len(layer.fields) :
                  i < k => FirstRecordWith(sets, layer.fields[i])
                               <= FirstRecordWith(sets, layer.fields[k])
            /\ Len(layer.features) = Len(pos)
            /\ \A j \in 1..Len(pos) :
                  LET attributes == layer.features[j].attributes
                      own == AttrsOf(zaznamy[pos[j]])
                  IN  /\ Len(attributes) <= Len(layer.fields)
                      /\ Len(attributes) = Cardinality(NamesUpTo(sets, pos[j]))
                      /\ \A i \in 1..Len(attributes) :
                            attributes[i] = dict_get(own, layer.fields[i])

\* a feature with fewer values than the layer has fields, one of them empty,
\* in a group where a record without geometry brought a field
C10_Witness ==
    /\ LayerCreated
    /\ Len(layer.features) >= 2
    /\ Len(layer.features) < Len(zaznamy)
    /\ Len(layer.features[1].attributes) < Len(layer.fields)
    /\ \E i \in 1..Len(layer.features[2].attributes) : layer.features[2].attributes[i] = <<>>

ImportedIds(lst) == {lst[i][1] : i \in 1..Len(lst)}

PositionsOf(id) == {i \in 1..Len(legend) : legend[i] = id}

IsExisting(id) == id < 1

\* C9: after the insertion every imported layer is in the legend exactly once,
\* every point layer is above every line layer and every line layer above
\* every polygon layer, and the layers that were there before are below all of
\* them in their previous order.
C9_LegendOrder ==
    pc = "done" =>
        LET P == ImportedIds(point_layers)
            L == ImportedIds(line_layers)
            G == ImportedIds(polygon_layers)
        IN  /\ \A id \in P \cup L \cup G : Cardinality(PositionsOf(id)) = 1
            /\ Len(legend) = Cardinality(P \cup L \cup G) + Len(ExistingLayers)
            /\ \A p \in P, l \in L \cup G : SetMin(PositionsOf(p)) < SetMin(PositionsOf(l))
            /\ \A l \in L, g \in G : SetMin(PositionsOf(l)) < SetMin(PositionsOf(g))
            /\ SelectSeq(legend, IsExisting) = ExistingLayers
            /\ \A i \in 1..Len(legend) :
                  IsExisting(legend[i]) => i > Cardinality(P \cup L \cup G)

\* an import that made a layer of each kind, two of them of one kind
C9_Witness ==
    /\ pc = "done"
    /\ point_layers # <<>>
    /\ line_layers # <<>>
    /\ polygon_layers # <<>>
    /\ Len(point_layers) + Len(line_layers) + Len(polygon_layers) = 4
    /\ Len(legend) = 4 + Len(ExistingLayers)

----------------------------------------------------------------------------
\* Claims about parse_poslist (SpecParse)

\* the whitespace-separated tokens of a text
TokensOf(txt) ==
    IF txt = NoneText \/ Strip(txt) = <<>> THEN <<>> ELSE re_split_ws(Strip(txt))

AllFloat(toks) == toks # <<>> /\ \A i \in 1..Len(toks) : float(toks[i]).ok

ValuesOf(toks) == [i \in 1..Len(toks) |-> float(toks[i]).v]

\* what C1 expects of n numeric tokens
ExpectedOfTokens(toks) ==
    LET n == Len(toks)
        v == ValuesOf(toks)
    IN  IF n > 0 /\ n % 3 = 0
        THEN [k \in 1..(n \div 3) |-> <<v[3 * k - 2], v[3 * k - 1]>>]
        ELSE [k \in 1..(n \div 2) |-> <<v[2 * k - 1], v[2 * k]>>]

\* C1: a text of n whitespace-separated tokens that all parse as floats gives
\* n/3 points (token 3k, token 3k+1) when n is a positive multiple of 3 and
\* floor(n/2) points (token 2k, token 2k+1) otherwise.
C1_NumericTokensGrouped ==
    (pc = "done" /\ AllFloat(TokensOf(text)))
        => pts = ExpectedOfTokens(TokensOf(text))

\* C8: when strategy 1 produced no points and the text still holds several
\* whitespace-separated numeric tokens (an odd count not divisible by 3),
\* strategy 2 is the one that supplies the (non-empty) result.
C8_Strategy2Supplies ==
    (/\ pc = "done"
     /\ AllFloat(TokensOf(text))
     /\ Len(TokensOf(text)) >= 2
     /\ Len(TokensOf(text)) % 2 = 1
     /\ Len(TokensOf(text)) % 3 # 0)
        => (strategy = 2 /\ pts # <<>>)

\* the return statement of the second block is never the one taken
Strategy2NeverReturns == pc = "done" => strategy # 2

\* the points of the tokens of shape "x,y" whose two sides are floats
IsCommaPair(tok) ==
    /\ Contains(tok, ",")
    /\ float(SplitComma(tok)[1]).ok
    /\ float(SplitComma(tok)[2]).ok

ExpectedCommaPoints(toks) ==
    LET good == SelectSeq(toks, IsCommaPair)
    IN  [k \in 1..Len(good) |->
            <<float(SplitComma(good[k])[1]).v, float(SplitComma(good[k])[2]).v>>]

SpecExample ==
    <<"a", "b", "c", " ", "1", ".", "0", ",", "2", ".", "0", " ",
      "x", "y", "z", " ", "3", ".", "0", ",", "4", ".", "0">>

\* C5: a text with a comma on which the two whitespace strategies yield nothing
\* gives exactly the points of its well-formed "x,y" tokens, in order, by the
\* third return; the fallback returns only when no token yields a point; the
\* example of the specification gives [(1,2),(3,4)] by the third return.
C5_CommaPairs ==
    (/\ pc = "done"
     /\ text # NoneText
     /\ Contains(text, ",")
     /\ strategy \notin {1, 2})
        => /\ raised = "none"
           /\ IF ExpectedCommaPoints(TokensOf(text)) # <<>>
              THEN strategy = 3 /\ pts = ExpectedCommaPoints(TokensOf(text))
              ELSE strategy = 4
           /\ text = SpecExample =>
                 pts = << <<<<1, 0>>, <<2, 0>>>>, <<<<3, 0>>, <<4, 0>>>> >>

C5_Witness ==
    /\ pc = "done"
    /\ text = SpecExample
    /\ strategy = 3
    /\ Len(pts) = 2
    /\ Len(TokensOf(text)) = 4

\* C7: the call always returns a point list, whatever the text; for None, the
\* empty text and a whitespace-only text the list is empty.
C7_NeverFails ==
    pc = "done"
        => /\ raised = "none"
           /\ strategy \in 0..5
           /\ (text = NoneText \/ Strip(text) = <<>>) => pts = <<>>

\* a text whose first block met a malformed token and that still gave points
C7_Witness ==
    /\ pc = "done"
    /\ text # NoneText
    /\ Strip(text) # <<>>
    /\ ~AllFloat(TokensOf(text))
    /\ raised = "none"
    /\ pts # <<>>

----------------------------------------------------------------------------
\* Claims about _extract_geometry_from_record (SpecExtract)

ElemsNamed(tree, name) == {k \in 1..Len(tree) : _localname(tree[k].tag) = name}

Descendants(tree, i) == i..SubtreeEnd(tree, i, i)

PointYields(tree, k) == parse_if_text(point_pos_text(tree, k)) # <<>>
LineYields(tree, k) == parse_if_text(line_pos_text(tree, k)) # <<>>
RingsOf(tree, k) == {r \in Descendants(tree, k) : _localname(tree[r].tag) = "LinearRing"}
YieldingRings(tree, k) == {r \in RingsOf(tree, k) : LineYields(tree, r)}
PolygonYields(tree, k) == YieldingRings(tree, k) # {}

YieldingPoints(tree) == {k \in ElemsNamed(tree, "Point") : PointYields(tree, k)}
YieldingLines(tree) == {k \in ElemsNamed(tree, "LineString") : LineYields(tree, k)}
YieldingPolygons(tree) == {k \in ElemsNamed(tree, "Polygon") : PolygonYields(tree, k)}

P00 == <<<<0, 0>>, <<0, 0>>>>
P11 == <<<<1, 0>>, <<1, 0>>>>
P12 == <<<<1, 0>>, <<2, 0>>>>

\* the record's only geometry element is one LineString whose first posList
\* holds the text "0 0 1 1 2 2"
C2_Case(tree) ==
    /\ ElemsNamed(tree, "Point") = {}
    /\ ElemsNamed(tree, "Polygon") = {}
    /\ Cardinality(ElemsNamed(tree, "LineString")) = 1
    /\ LET ls == SetMin(ElemsNamed(tree, "LineString"))
           pl == {k \in Descendants(tree, ls) : _localname(tree[k].tag) = "posList"}
       IN  pl # {} /\ tree[SetMin(pl)].text = Txt_0_0_1_1_2_2

\* C2 as stated: that record gives the line (0,0), (1,1).
C2_LineVerticesAsStated ==
    (pc = "done" /\ C2_Case(record_elem))
        => /\ extracted.label = "LineString"
           /\ extracted.geom.kind = "line"
           /\ extracted.geom.data = <<P00, P11>>

\* C2 amended: that record gives the line (0,0), (1,2): of the six tokens the
\* third and the sixth are discarded.
C2_LineVertices ==
    (pc = "done" /\ C2_Case(record_elem))
        => /\ extracted.label = "LineString"
           /\ extracted.geom.kind = "line"
           /\ extracted.geom.data = <<P00, P12>>

C2_Witness ==
    /\ pc = "done"
    /\ C2_Case(record_elem)
    /\ extracted.label = "LineString"
    /\ Len(extracted.geom.data) = 2

\* C4: the kind is chosen by priority Point, LineString, Polygon: Point exactly
\* when some Point yields a point (the geometry is then the first parsed point
\* of the first such Point), LineString exactly when no Point yields and some
\* LineString does, Polygon exactly when neither does and some Polygon has a
\* non-empty ring, none exactly when nothing yields; geometry and label are
\* both present or both none.
C4_Priority ==
    pc = "done" =>
        LET t  == record_elem
            yp == YieldingPoints(t)
            yl == YieldingLines(t)
            yg == YieldingPolygons(t)
        IN  /\ extracted.label = "Point" <=> yp # {}
            /\ extracted.label = "LineString" <=> (yp = {} /\ yl # {})
            /\ extracted.label = "Polygon" <=> (yp = {} /\ yl = {} /\ yg # {})
            /\ extracted.label = "None" <=> (yp = {} /\ yl = {} /\ yg = {})
            /\ extracted.label = "None" <=> extracted.geom.kind = "none"
            /\ extracted.label = "Point" => extracted.geom.kind = "point"
            /\ extracted.label = "LineString" => extracted.geom.kind = "line"
            /\ extracted.label = "Polygon" => extracted.geom.kind = "polygon"
            /\ yp # {} =>
                  extracted.geom.data =
                      <<parse_poslist(point_pos_text(t, SetMin(yp))).pts[1]>>

\* a Point that yields beside a LineString that yields too
C4_Witness ==
    /\ pc = "done"
    /\ extracted.label = "Point"
    /\ YieldingPoints(record_elem) # {}
    /\ YieldingLines(record_elem) # {}
    /\ \E k \in ElemsNamed(record_elem, "Point") : ~PointYields(record_elem, k)

\* the yielding rings of a polygon element, in document order
RECURSIVE SortedSeq(_)
SortedSeq(S) == IF S = {} THEN <<>> ELSE <<SetMin(S)>> \o SortedSeq(S \ {SetMin(S)})

ExpectedRings(tree, k) ==
    LET rs == SortedSeq(YieldingRings(tree, k))
    IN  [i \in 1..Len(rs) |-> parse_poslist(line_pos_text(tree, rs[i])).pts]

\* C6: a returned polygon holds one ring for every LinearRing of the Polygon
\* element that yielded points, in document order, and no empty ring; it is
\* returned only with at least one ring; the Polygon with one valid and one
\* empty LinearRing gives exactly one ring.
C6_Rings ==
    (pc = "done" /\ extracted.label = "Polygon") =>
        LET t   == record_elem
            pg  == SetMin(YieldingPolygons(t))
        IN  /\ YieldingPolygons(t) # {}
            /\ extracted.geom.kind = "polygon"
            /\ extracted.geom.data = ExpectedRings(t, pg)
            /\ Len(extracted.geom.data) = Cardinality(YieldingRings(t, pg))
            /\ Len(extracted.geom.data) >= 1
            /\ \A i \in 1..Len(extracted.geom.data) : Len(extracted.geom.data[i]) >= 1

\* the example: two LinearRings, one with points and one with none, one ring
C6_Witness ==
    /\ pc = "done"
    /\ extracted.label = "Polygon"
    /\ Cardinality(RingsOf(record_elem, SetMin(ElemsNamed(record_elem, "Polygon")))) = 2
    /\ Cardinality(YieldingRings(record_elem, SetMin(ElemsNamed(record_elem, "Polygon")))) = 1
    /\ Len(extracted.geom.data) = 1

====
